---- MODULE Spec2Model ----
(***************************************************************************)
(* A model of rom-media-scraper (src/scraper.py): the fingerprint cache    *)
(* (CachedResource), the ScreenScraper API client (api_call, systems,      *)
(* find_game, _game_name, download_rom_media) and the directory walk       *)
(* (iter_files, download_media).                                           *)
(*                                                                         *)
(* Conventions.  A Python str that the code splits, strips or lower-cases  *)
(* is a sequence of one-character strings.  A Python dict whose insertion  *)
(* order matters is a sequence of <<key, value>> pairs with distinct keys. *)
(* The outcome of a call is a record [ok, val, exc]: a returned value or a *)
(* raised exception.  A decoded JSON value carries a tag j; Python's None  *)
(* (which is also what JSON null decodes to) is the value None.            *)
(***************************************************************************)
EXTENDS Integers, Sequences, FiniteSets, TLC

VARIABLES
    cachedir,   \* ScreenScraper.cachedir: NoRoot (None) or a directory
    files,      \* the filesystem under the cache root: path -> text
    _systems,   \* ScreenScraper._systems: id -> System
    loaded,     \* history: an access to .systems has completed without error
    first_ret,  \* history: call -> value first returned by a network success
    last,       \* the operation just performed and what it observed
    arg,        \* input of the pure function under test
    ret,        \* its output
    order,      \* the order in which the OS lists the subdirectories of roms
    todo,       \* download_media: what iter_files has yet to yield
    cur_system, \* download_media: its local `system`, a System or None
    num_rom,    \* download_media: files attempted
    num_media,  \* download_media: files for which media was found
    pc,         \* download_media: "idle", "walk", "done" or "raised"
    hist,       \* history: counts of the files visited, by what became of them
    escaped,    \* the exception that left download_media or cli, if one did
    exit_code,  \* run: the status the process ended with, once pc = "exited"
    _crc32,     \* Rom: the memo of the checksum, "" until it is computed
    scans       \* history: how many times the file of the Rom was read through

walk_vars == <<order, todo, cur_system, num_rom, num_media, pc, hist, escaped, exit_code>>

rom_vars == <<_crc32, scans>>

vars == <<cachedir, files, _systems, loaded, first_ret, last, arg, ret,
          order, todo, cur_system, num_rom, num_media, pc, hist, escaped, exit_code,
          _crc32, scans>>

-----------------------------------------------------------------------------
(* Python values and outcomes *)

None == [j |-> "None"]
NoExc == [cls |-> "none"]
NoRes == [status_code |-> 0]

Ok(v) == [ok |-> TRUE, val |-> v, exc |-> NoExc]
Raise(e) == [ok |-> FALSE, val |-> None, exc |-> e]

\* class ScraperError(Exception): msg, errno, err
ScraperError(msg, errno, err) ==
    [cls |-> "ScraperError", msg |-> msg, errno |-> errno, err |-> err, res |-> NoRes]

\* class ScraperResponseError(ScraperError): errno is the response's status code
ScraperResponseError(msg, err, res) ==
    [cls |-> "ScraperResponseError", msg |-> msg, errno |-> res.status_code,
     err |-> err, res |-> res]

\* An exception of a class that is not defined by the program
Foreign(cls) == [cls |-> cls]

\* isinstance(e, ScraperError): what `except ScraperError` catches
IsScraperError(e) == e.cls \in {"ScraperError", "ScraperResponseError"}

-----------------------------------------------------------------------------
(* Strings as sequences of characters *)

Comma == ","
Space == " "

Upper == <<"A", "B", "C", "D", "E", "F", "G", "H", "I", "J", "K", "L", "M",
           "N", "O", "P", "Q", "R", "S", "T", "U", "V", "W", "X", "Y", "Z">>
Lower == <<"a", "b", "c", "d", "e", "f", "g", "h", "i", "j", "k", "l", "m",
           "n", "o", "p", "q", "r", "s", "t", "u", "v", "w", "x", "y", "z">>

\* str.lower(), one character
LowerChar(c) ==
    IF \E i \in 1..26 : Upper[i] = c
    THEN Lower[CHOOSE i \in 1..26 : Upper[i] = c]
    ELSE c

\* str.lower()
ToLower(s) == [i \in 1..Len(s) |-> LowerChar(s[i])]

\* str.strip(): leading and trailing whitespace removed
RECURSIVE LStrip(_)
LStrip(s) == IF s # <<>> /\ Head(s) = Space THEN LStrip(Tail(s)) ELSE s

RECURSIVE RStrip(_)
RStrip(s) ==
    IF s # <<>> /\ s[Len(s)] = Space THEN RStrip(SubSeq(s, 1, Len(s) - 1)) ELSE s

Strip(s) == RStrip(LStrip(s))

\* str.split(sep) for a one-character sep: never empty, "" gives [""]
RECURSIVE Split(_, _)
Split(s, sep) ==
    IF \A i \in 1..Len(s) : s[i] # sep
    THEN <<s>>
    ELSE LET k == CHOOSE i \in 1..Len(s) :
                      s[i] = sep /\ \A m \in 1..(i - 1) : s[m] # sep
         IN <<SubSeq(s, 1, k - 1)>> \o Split(SubSeq(s, k + 1, Len(s)), sep)

\* csv2iter(text): stripped elements of the stripped text; nothing for blank
csv2iter(text) ==
    IF Strip(text) = <<>>
    THEN <<>>
    ELSE LET parts == Split(Strip(text), Comma)
         IN [i \in 1..Len(parts) |-> Strip(parts[i])]

\* unique(iterable): first occurrences in order, falsy (empty) elements dropped
RECURSIVE Dedup(_, _)
Dedup(s, seen) ==
    IF s = <<>> THEN <<>>
    ELSE IF Head(s) \in seen THEN Dedup(Tail(s), seen)
    ELSE <<Head(s)>> \o Dedup(Tail(s), seen \cup {Head(s)})

\* unique that only drops the falsy elements
unique_plain(iterable) == SelectSeq(iterable, LAMBDA x : x # <<>>)

unique(iterable) == Dedup(SelectSeq(iterable, LAMBDA x : x # <<>>), {})

Range(s) == {s[i] : i \in 1..Len(s)}

-----------------------------------------------------------------------------
(* JSON: decoded values and their text *)

\* a decoded JSON object (dict), array (list) and scalars
JObj(d) == [j |-> "obj", d |-> d]
JList(l) == [j |-> "list", l |-> l]
JInt(n) == [j |-> "int", n |-> n]
JStr(s) == [j |-> "str", s |-> s]

\* the text of a body or file: valid JSON for a value, or something else
JsonText(v) == [fmt |-> "json", val |-> v]
RawText(words) == [fmt |-> "raw", words |-> words]

\* sorted() of the parameter names the client uses (code-point order)
KeyOrder == <<"crc", "recherche", "romnom", "romtaille", "romtype", "systemeid", "url">>

DictKeys(d) == {d[i][1] : i \in 1..Len(d)}
DictGet(d, k) == d[CHOOSE i \in 1..Len(d) : d[i][1] = k][2]

\* the items of a dict in sorted key order (json.dumps(..., sort_keys=True))
SortDict(d) ==
    LET present == SelectSeq(KeyOrder, LAMBDA k : k \in DictKeys(d))
    IN [i \in 1..Len(present) |-> <<present[i], DictGet(d, present[i])>>]

\* pretty(obj, sort_keys): json.dumps renders the keys of every dict in
\* insertion order unless sort_keys is set.  The only dict whose order the
\* model keeps is the params of a cache key tuple.
pretty(obj, sort_keys) ==
    JsonText(IF sort_keys /\ obj.j = "tuple"
             THEN [obj EXCEPT !.params = SortDict(@)]
             ELSE obj)

\* json.loads(data) / Response.json()
json_loads(data) ==
    IF data.fmt = "json" THEN Ok(data.val) ELSE Raise(Foreign("JSONDecodeError"))

\* obj[key] on a decoded JSON value
GetItem(obj, key) ==
    IF obj.j = "obj"
    THEN IF key \in DOMAIN obj.d THEN Ok(obj.d[key]) ELSE Raise(Foreign("KeyError"))
    ELSE Raise(Foreign("TypeError"))

\* marker in text
Contains(text, marker) == text.fmt = "raw" /\ marker \in Range(text.words)

-----------------------------------------------------------------------------
(* CachedResource *)

NoRoot == "<None>"
CACHE_DIR == "cache"
NonePath == [root |-> NoRoot]
Absent == [fmt |-> "absent"]

json == <<"j", "s", "o", "n">>
xml == <<"x", "m", "l">>
txt == <<"t", "x", "t">>
html == <<"h", "t", "m", "l">>
TEXT_TYPES == {json, xml, txt, html}

\* the tuple (origin, name, params) handed to hashobj
KeyTuple(origin, name, params) ==
    [j |-> "tuple", origin |-> origin, name |-> name, params |-> params]

\* hashobj without sort_keys: the digest follows the construction order
hashobj_unsorted(obj) == [xxh3_128 |-> pretty(obj, FALSE)]

\* hashobj(obj): the digest of the canonical text; the digest is modelled as
\* injective on texts (no collision of the 128-bit hash)
hashobj(obj) == [xxh3_128 |-> pretty(obj, TRUE)]

\* filetype.lstrip(".")
RECURSIVE LStripDot(_)
LStripDot(s) == IF s # <<>> /\ Head(s) = "." THEN LStripDot(Tail(s)) ELSE s

\* CachedResource.__init__
CachedResource(origin, name, params, filetype, rootdir) ==
    [stem |-> hashobj(KeyTuple(origin, name, params)),
     type |-> ToLower(LStripDot(filetype)),
     root |-> rootdir]

\* CachedResource.name
ResourceName(cache) ==
    [stem |-> cache.stem,
     suffix |-> IF cache.type # <<>> THEN <<".">> \o cache.type ELSE <<>>]

\* CachedResource.path
ResourcePath(cache) ==
    IF cache.root = NoRoot
    THEN NonePath
    ELSE [root |-> cache.root, name |-> ResourceName(cache)]

is_text(cache) == cache.type \in TEXT_TYPES
is_json(cache) == cache.type = json

\* CachedResource.read that never finds the file
CachedRead_miss(fs, cache) == Ok(None)

\* CachedResource.read
CachedRead(fs, cache) ==
    LET path == ResourcePath(cache)
    IN IF path = NonePath THEN Ok(None)
       ELSE IF path \notin DOMAIN fs THEN Ok(None)
       ELSE IF is_json(cache) THEN json_loads(fs[path])
       ELSE Ok(fs[path])

\* CachedResource.write with a missing root taken for the current directory
CachedWrite_cwd(fs, cache, data) ==
    LET path == [root |-> ".", name |-> ResourceName(cache)]
        text == IF is_json(cache) THEN pretty(data, FALSE) ELSE data
    IN [p \in DOMAIN fs \cup {path} |-> IF p = path THEN text ELSE fs[p]]

\* CachedResource.write that writes nothing
CachedWrite_skip(fs, cache, data) == fs

\* CachedResource.write: the filesystem after the call
CachedWrite(fs, cache, data) ==
    LET path == ResourcePath(cache)
        text == IF is_json(cache) THEN pretty(data, FALSE) ELSE data
    IN IF path = NonePath THEN fs
       ELSE [p \in DOMAIN fs \cup {path} |-> IF p = path THEN text ELSE fs[p]]

-----------------------------------------------------------------------------
(* ScreenScraper: api_call *)

source == "ScreenScraper"
API_URL == "https://api.screenscraper.fr/api2"

\* the marker phrases the client looks for in a body (accents dropped)
DevMarker == "identifiants developpeur"
NotFoundMarker == "non trouvee"

\* ScreenScraper.get_cached_resource
get_cached_resource(root, endpoint, params, filetype) ==
    CachedResource(source, endpoint, params, filetype, root)

\* what requests.get gives: an exception it raises, or a completed response
NetRaise(exc) == [exc |-> exc, status_code |-> 0, text |-> RawText(<<>>)]
NetResponse(status, text) == [exc |-> "none", status_code |-> status, text |-> text]

\* requests.Response as the client reads it
Response(endpoint, net) ==
    [status_code |-> net.status_code, headers |-> "headers", text |-> net.text,
     url |-> <<API_URL, endpoint>>]

\* Response.raise_for_status() raises HTTPError
IsHTTPError(status) == 400 <= status /\ status < 600

\* Fetch with the except clauses in the other order: RequestException, the
\* base class of requests.JSONDecodeError, takes the malformed body too
Fetch_swapped(fs, cache, endpoint, net) ==
    LET res == Response(endpoint, net)
        out == json_loads(res.text)
        quiet(r) == [result |-> r, files |-> fs, net |-> TRUE]
    IN IF net.exc = "ReadTimeout"
       THEN quiet(Raise(ScraperError([fmt |-> "%s"], 0, "ReadTimeout")))
       ELSE IF net.exc # "none"
       THEN quiet(Raise(Foreign(net.exc)))
       ELSE IF IsHTTPError(res.status_code) \/ ~out.ok
       THEN IF res.status_code \in {403} /\ Contains(res.text, DevMarker)
            THEN quiet(Raise(ScraperResponseError(
                     [fmt |-> "%s\t%s (Invalid developer credentials)",
                      text |-> res.text], "HTTPError", res)))
            ELSE quiet(Raise(ScraperResponseError(
                     [fmt |-> "%s\n%s\n%s", headers |-> res.headers,
                      text |-> res.text], "HTTPError", res)))
       ELSE [result |-> GetItem(out.val, "response"),
             files |-> CachedWrite(fs, cache, out.val),
             net |-> TRUE]

\* api_call, from the request on (the cache had no data)
Fetch(fs, cache, endpoint, net) ==
    LET res == Response(endpoint, net)
        out == json_loads(res.text)
        quiet(r) == [result |-> r, files |-> fs, net |-> TRUE]
    IN IF net.exc = "ReadTimeout"
       THEN quiet(Raise(ScraperError([fmt |-> "%s"], 0, "ReadTimeout")))
       ELSE IF net.exc # "none"
       THEN quiet(Raise(Foreign(net.exc)))
       ELSE IF IsHTTPError(res.status_code)
       THEN IF res.status_code \in {403} /\ Contains(res.text, DevMarker)
            THEN quiet(Raise(ScraperResponseError(
                     [fmt |-> "%s\t%s (Invalid developer credentials)",
                      text |-> res.text], "HTTPError", res)))
            ELSE quiet(Raise(ScraperResponseError(
                     [fmt |-> "%s\n%s\n%s", headers |-> res.headers,
                      text |-> res.text], "HTTPError", res)))
       ELSE IF ~out.ok
       THEN quiet(Raise(ScraperError(
                [fmt |-> "Malformed JSON: %s from url: %s\n%r", url |-> res.url,
                 text |-> res.text], 0, "JSONDecodeError")))
       ELSE [result |-> GetItem(out.val, "response"),
             files |-> CachedWrite(fs, cache, out.val),
             net |-> TRUE]

\* ScreenScraper.api_call(endpoint, **params) against filesystem fs, with
\* net the outcome the network has ready: the result, the filesystem after
\* the call and whether a request was issued
api_call(fs, root, endpoint, params, net) ==
    LET cache == get_cached_resource(root, endpoint, params, json)
        cache_data == CachedRead(fs, cache)
        quiet(r) == [result |-> r, files |-> fs, net |-> FALSE]
    IN IF ~cache_data.ok THEN quiet(cache_data)
       ELSE IF cache_data.val # None THEN quiet(GetItem(cache_data.val, "response"))
       ELSE Fetch(fs, cache, endpoint, net)

\* result[key] on the outcome of an api_call
Sub(r, key) ==
    IF r.result.ok THEN [r EXCEPT !.result = GetItem(r.result.val, key)] ELSE r

\* ScreenScraper.api_systems_list
api_systems_list(fs, root, net) ==
    Sub(api_call(fs, root, "systemesListe.php", <<>>, net), "systemes")

\* the params of api_game_info, in the order the code builds them
GameParams(system_id, rom_name, rom_size, crc) ==
    << <<"systemeid", JInt(system_id)>>, <<"crc", JStr(crc)>>,
       <<"romnom", JStr(rom_name)>>, <<"romtype", JStr("rom")>>,
       <<"romtaille", JInt(rom_size)>> >>

\* ScreenScraper.api_game_info
api_game_info(fs, root, system_id, rom_name, rom_size, crc, net) ==
    Sub(api_call(fs, root, "jeuInfos.php",
                 GameParams(system_id, rom_name, rom_size, crc), net), "jeu")

\* ScreenScraper.api_game_search
api_game_search(fs, root, system_id, search, net) ==
    Sub(api_call(fs, root, "jeuRecherche.php",
                 << <<"systemeid", JInt(system_id)>>,
                    <<"recherche", JStr(search)>> >>, net), "jeux")

-----------------------------------------------------------------------------
(* System and the system catalog *)

DictHas(d, k) == k \in DictKeys(d)

\* the values of a dict, chained after csv2iter
RECURSIVE ChainCsv(_)
ChainCsv(d) ==
    IF d = <<>> THEN <<>> ELSE csv2iter(Head(d)[2]) \o ChainCsv(Tail(d))

\* System.__init__(data): a System, or the KeyError of a missing nom_eu
System(data) ==
    IF ~DictHas(data.noms, "nom_eu")
    THEN Raise(Foreign("KeyError"))
    ELSE Ok([data |-> data,
             id |-> data.id,
             name |-> DictGet(data.noms, "nom_eu"),
             suffixes |-> {<<".">> \o e : e \in Range(csv2iter(data.extensions))},
             paths |-> {ToLower(n) : n \in Range(ChainCsv(data.noms))}])

\* self._systems[system.id] = system, on a dict kept in insertion order
SetSystem(d, system) ==
    IF \E i \in 1..Len(d) : d[i].id = system.id
    THEN [i \in 1..Len(d) |-> IF d[i].id = system.id THEN system ELSE d[i]]
    ELSE Append(d, system)

\* the loop of ScreenScraper.systems over the list the remote source gave
RECURSIVE LoadSystems(_, _)
LoadSystems(list, acc) ==
    IF list = <<>>
    THEN [result |-> Ok(acc), systems |-> acc]
    ELSE LET system == System(Head(list))
         IN IF ~system.ok
            THEN [result |-> system, systems |-> acc]
            ELSE LoadSystems(Tail(list), SetSystem(acc, system.val))

\* ScreenScraper.systems (property): the mapping, the new _systems, and
\* whether api_systems_list was called
systems(fs, root, sys, net) ==
    IF sys # <<>>
    THEN [result |-> Ok(sys), systems |-> sys, files |-> fs, net |-> FALSE,
          listed |-> FALSE]
    ELSE LET r == api_systems_list(fs, root, net)
             l == LoadSystems(r.result.val, sys)
         IN IF ~r.result.ok
            THEN [result |-> r.result, systems |-> sys, files |-> r.files,
                  net |-> r.net, listed |-> TRUE]
            ELSE [result |-> l.result, systems |-> l.systems, files |-> r.files,
                  net |-> r.net, listed |-> TRUE]

\* a loop that compares the name as it is spelled
RECURSIVE FirstSystem_cased(_, _)
FirstSystem_cased(sys, dirname) ==
    IF sys = <<>> THEN None
    ELSE IF dirname \in Head(sys).paths THEN Head(sys)
    ELSE FirstSystem_cased(Tail(sys), dirname)

\* the loop of find_system_by_dir: first system whose paths hold the name
RECURSIVE FirstSystem(_, _)
FirstSystem(sys, dirname) ==
    IF sys = <<>> THEN None
    ELSE IF ToLower(dirname) \in Head(sys).paths THEN Head(sys)
    ELSE FirstSystem(Tail(sys), dirname)

\* ScreenScraper.find_system_by_dir(path); a path is a sequence of components
find_system_by_dir(fs, root, sys, path, is_file, net) ==
    LET dir == IF is_file THEN SubSeq(path, 1, Len(path) - 1) ELSE path
        dirname == dir[Len(dir)]
        s == systems(fs, root, sys, net)
    IN IF s.result.ok
       THEN [s EXCEPT !.result = Ok(FirstSystem(s.result.val, dirname))]
       ELSE s

-----------------------------------------------------------------------------
(* Games: find_game, _game_name, download_rom_media *)

\* find_game that remaps every 404, whatever the body
find_game_any404(fs, root, system, rom, net) ==
    LET info == api_game_info(fs, root, system.id, rom.name, rom.size, rom.crc32, net)
        e == info.result.exc
    IN IF info.result.ok THEN info
       ELSE IF e.cls = "ScraperResponseError" /\ e.errno \in {404}
       THEN [info EXCEPT !.result = Raise(ScraperError(
                [fmt |-> "%r for %r not found in %s database.", rom |-> rom.name,
                 system |-> system.id, source |-> source], 0, e.err))]
       ELSE info

\* ScreenScraper.find_game(system, rom)
find_game(fs, root, system, rom, net) ==
    LET info == api_game_info(fs, root, system.id, rom.name, rom.size, rom.crc32, net)
        e == info.result.exc
    IN IF info.result.ok THEN info
       ELSE IF /\ e.cls = "ScraperResponseError"
               /\ e.errno \in {404}
               /\ Contains(e.res.text, NotFoundMarker)
       THEN [info EXCEPT !.result = Raise(ScraperError(
                [fmt |-> "%r for %r not found in %s database.", rom |-> rom.name,
                 system |-> system.id, source |-> source], 0, e.err))]
       ELSE info

wor == <<"w", "o", "r">>
ss == <<"s", "s">>
eu == <<"e", "u">>

\* the names of the game tagged with the region, in list order
NamesIn(game, region) == SelectSeq(game.noms, LAMBDA n : n.region = region)

\* the loop of _game_name over the candidate regions; warned lists the
\* regions logged as missing a name, in order
RECURSIVE FirstName(_, _, _)
FirstName(game, regions, warned) ==
    IF regions = <<>>
    THEN [result |-> Raise(ScraperError([fmt |-> "Unknown game region %r",
                                         romregions |-> game.rom.romregions],
                                        0, "None")),
          warned |-> warned]
    ELSE IF NamesIn(game, Head(regions)) # <<>>
    THEN [result |-> Ok(NamesIn(game, Head(regions))[1].text), warned |-> warned]
    ELSE FirstName(game, Tail(regions), Append(warned, Head(regions)))

\* ScreenScraper._game_name(game)
_game_name(game) ==
    FirstName(game, unique(Split(game.rom.romregions, Comma) \o <<wor, ss, eu>>), <<>>)

Digits == <<"0", "1", "2", "3", "4", "5", "6", "7", "8", "9">>
IsDigit(c) == \E i \in 1..10 : Digits[i] = c
DigitVal(c) == (CHOOSE i \in 1..10 : Digits[i] = c) - 1

\* int(s) for a string of decimal digits
RECURSIVE IntOf(_)
IntOf(s) == IF s = <<>> THEN 0 ELSE 10 * IntOf(SubSeq(s, 1, Len(s) - 1)) + DigitVal(s[Len(s)])
IsNumeric(s) == s # <<>> /\ \A i \in 1..Len(s) : IsDigit(s[i])

\* the scan of download_rom_media over a non-empty media list, as written:
\* its first statement returns, so the match below it is never evaluated
RECURSIVE ScanMedia(_, _, _)
ScanMedia(medias, media_type, rom_regions) ==
    IF medias = <<>> THEN [ret |-> FALSE, download |-> None]
    ELSE IF TRUE THEN [ret |-> TRUE, download |-> None]
    ELSE IF Head(medias).type = media_type /\ Head(medias).region \in Range(rom_regions)
    THEN [ret |-> TRUE, download |-> Head(medias)]
    ELSE ScanMedia(Tail(medias), media_type, rom_regions)

\* download_rom_media from the game on: the value returned or the exception
\* raised, and the media entry handed to download_file (None: not called)
SelectMedia(system, game, media_type) ==
    LET rom_regions == Split(game.rom.romregions, Comma)
        game_name == _game_name(game)
        scan == ScanMedia(game.medias, media_type, rom_regions)
    IN IF ~IsNumeric(game.systeme.id)
       THEN [result |-> Raise(Foreign("ValueError")), download |-> None]
       ELSE IF system.id # IntOf(game.systeme.id)
       THEN [result |-> Raise(Foreign("AssertionError")), download |-> None]
       ELSE IF ~game_name.result.ok
       THEN [result |-> game_name.result, download |-> None]
       ELSE IF game.medias = <<>>
       THEN [result |-> Ok(FALSE), download |-> None]
       ELSE [result |-> Ok(scan.ret), download |-> scan.download]

\* ScreenScraper.download_rom_media(system, rom, save_path, media_type)
download_rom_media(fs, root, system, rom, media_type, net) ==
    LET g == find_game(fs, root, system, rom, net)
        m == SelectMedia(system, g.result.val, media_type)
        base == [result |-> g.result, files |-> g.files, net |-> g.net,
                 download |-> None]
    IN IF ~g.result.ok THEN base
       ELSE [base EXCEPT !.result = m.result, !.download = m.download]

-----------------------------------------------------------------------------
(* The data of the model: systems, roms, games, bodies *)

Nintendo64 == <<"N", "i", "n", "t", "e", "n", "d", "o", " ", "6", "4">>
N64 == <<"N", "6", "4">>
SuperNintendo == <<"S", "N", "E", "S">>

\* SystemData as systemesListe.php gives it
N64Data ==
    [id |-> 14,
     noms |-> << <<"nom_eu", Nintendo64>>,
                 <<"noms_commun", Nintendo64 \o <<",", " ">> \o N64>> >>,
     extensions |-> <<"z", "6", "4", ",", "n", "6", "4">>]
SnesData ==
    [id |-> 4,
     noms |-> << <<"nom_eu", SuperNintendo>> >>,
     extensions |-> <<"s", "f", "c">>]
\* an entry that lacks nom_eu
BrokenData ==
    [id |-> 7,
     noms |-> << <<"nom_us", <<"X">> >> >>,
     extensions |-> <<>>]

\* a system that shares the common name N64
N64DDData ==
    [id |-> 122,
     noms |-> << <<"nom_eu", <<"6", "4", "D", "D">> >>,
                 <<"noms_commun", <<" ">> \o N64 \o <<" ", ",", "6", "4", "D", "D">> >> >>,
     extensions |-> <<"n", "d", "d">>]

\* the System objects built from them
N64System == System(N64Data).val
SnesSystem == System(SnesData).val

SystemLists ==
    {<<>>, <<N64Data, SnesData>>, <<N64Data, BrokenData>>, <<N64DDData, N64Data, SnesData>>}

\* a Rom: path.stem, path.stat().st_size and the CRC32 of the content
RomA == [name |-> <<"a">>, size |-> 8, crc32 |-> "0A1B2C3D"]

us == <<"u", "s">>
jp == <<"j", "p">>

\* a GameInfoData as jeuInfos.php gives it
Game(system_id, regions, noms, medias) ==
    [systeme |-> [id |-> system_id],
     rom |-> [romfilename |-> "a.z64", romregions |-> regions],
     noms |-> noms,
     medias |-> medias]

Media(type, region) ==
    [type |-> type, region |-> region, format |-> "png", url |-> "http://media"]

GameA == Game(<<"1", "4">>, us, <<[region |-> us, text |-> "Game A"]>>,
              <<Media("ss", us)>>)

\* envelopes and other decoded bodies
Envelope(response) == JObj([response |-> response])
EnvSystems(list) == Envelope(JObj([systemes |-> list]))
EnvGame(game) == Envelope(JObj([jeu |-> game]))
NoResponse == JObj([error |-> "x"])

IsEnvelope(v) == v.j = "obj" /\ "response" \in DOMAIN v.d

DevBody == RawText(<<"Erreur de login : Verifier vos", DevMarker, "!">>)
NotFoundBody == RawText(<<"Erreur : Rom/Iso/Dossier", NotFoundMarker, "!">>)
EmptyBody == RawText(<<>>)

\* the outcomes the network has for a call: one or more on each side of
\* every test the client makes of the exception, the status and the body
ApiNets ==
    {NetRaise("ReadTimeout"), NetRaise("ConnectTimeout")}
    \cup {NetResponse(200, b) :
            b \in {JsonText(EnvSystems(<<N64Data, SnesData>>)), JsonText(EnvGame(GameA)),
                   JsonText(None), JsonText(NoResponse), EmptyBody}}
    \cup {NetResponse(300, b) : b \in {JsonText(EnvGame(GameA)), EmptyBody}}
    \cup {NetResponse(403, b) : b \in {DevBody, NotFoundBody}}
    \cup {NetResponse(404, b) : b \in {NotFoundBody, DevBody, JsonText(EnvGame(GameA))}}
    \cup {NetResponse(500, EmptyBody)}

\* the outcomes the network has for the systems list
CatalogNets ==
    {NetRaise("ReadTimeout")}
    \cup {NetResponse(200, JsonText(EnvSystems(l))) : l \in SystemLists}
    \cup {NetResponse(200, JsonText(None)), NetResponse(500, EmptyBody)}

-----------------------------------------------------------------------------
(* The API client as a state machine: a caller uses api_call, the catalog, *)
(* find_game and cached resources in any order, against any remote source  *)

EmptyFs == [p \in {} |-> Absent]
FileAt(fs, path) == IF path \in DOMAIN fs THEN fs[path] ELSE Absent

CallSystems == [endpoint |-> "systemesListe.php", params |-> <<>>]
CallGame ==
    [endpoint |-> "jeuInfos.php",
     params |-> GameParams(14, RomA.name, RomA.size, RomA.crc32)]
ApiCalls == {CallSystems, CallGame}

PathOf(root, call) ==
    ResourcePath(get_cached_resource(root, call.endpoint, call.params, json))

NoVal == [j |-> "unset"]
NoCall == [endpoint |-> "", params |-> <<>>]

\* a cache entry left by an earlier run that no longer parses
CorruptText == RawText(<<"{", "response">>)

\* the resources a caller reads and writes directly (as download_file
\* builds them), by file type, and the payload written
DownloadParams == << <<"url", JStr("http://media")>> >>
FileTypes == {<<".", "p", "n", "g">>, <<"T", "X", "T">>, json}
Payload(filetype) ==
    IF ToLower(LStripDot(filetype)) = json THEN JList(<<>>) ELSE RawText(<<"data">>)
Resource(root, filetype) == get_cached_resource(root, "download", DownloadParams, filetype)

NoNet == NetRaise("none")

NoHist ==
    [visited |-> 0, in_system |-> 0, returned_true |-> 0, errors |-> 0,
     seen |-> <<>>, counted |-> <<>>]

\* Rom.__init__: nothing computed yet
RomIdle ==
    /\ _crc32 = <<>>
    /\ scans = 0

\* no download_media is running
WalkIdle ==
    /\ order = <<>>
    /\ todo = <<>>
    /\ cur_system = None
    /\ num_rom = 0
    /\ num_media = 0
    /\ pc = "idle"
    /\ hist = NoHist
    /\ escaped = NoExc
    /\ exit_code = 0

LastNone ==
    [op |-> "none", call |-> NoCall, filetype |-> <<>>, path |-> <<>>,
     logged |-> FALSE,
     pre |-> Absent, had_first |-> FALSE, netout |-> NoNet, inner |-> Ok(None),
     result |-> Ok(None), net |-> FALSE, listed |-> FALSE, pre_loaded |-> FALSE,
     pre_systems |-> <<>>, prev_write |-> FALSE]

InitApi ==
    /\ cachedir \in {NoRoot, CACHE_DIR}
    /\ files \in {EmptyFs}
                 \cup {[p \in {PathOf(cachedir, c)} |-> CorruptText] :
                          c \in IF cachedir = NoRoot THEN {} ELSE ApiCalls}
    /\ _systems = <<>>
    /\ loaded = FALSE
    /\ first_ret = [c \in ApiCalls |-> NoVal]
    /\ last = LastNone
    /\ arg = None
    /\ ret = None
    /\ WalkIdle
    /\ RomIdle

\* the history of first returns after the api_call `raw` of `call`
NoteFirst(call, raw) ==
    IF first_ret[call] = NoVal /\ raw.net /\ raw.result.ok
    THEN [first_ret EXCEPT ![call] = raw.result.val]
    ELSE first_ret

\* a caller runs api_call(endpoint, **params)
ApiCallStep ==
    \E call \in ApiCalls, net \in ApiNets :
        \E r \in {api_call(files, cachedir, call.endpoint, call.params, net)} :
           /\ files' = r.files
           /\ first_ret' = NoteFirst(call, r)
           /\ last' = [LastNone EXCEPT
                          !.op = "api_call", !.call = call,
                          !.pre = FileAt(files, PathOf(cachedir, call)),
                          !.had_first = first_ret[call] # NoVal,
                          !.netout = IF r.net THEN net ELSE NoNet,
                          !.result = r.result, !.net = r.net]
           /\ UNCHANGED <<cachedir, _systems, loaded, arg, ret>>
           /\ UNCHANGED walk_vars
           /\ UNCHANGED rom_vars

\* a caller runs find_game(system, rom) for the rom under the N64 system
FindGameStep ==
    \E net \in ApiNets :
        \E r \in {find_game(files, cachedir, N64System, RomA, net)},
           info \in {api_game_info(files, cachedir, N64System.id, RomA.name,
                                   RomA.size, RomA.crc32, net)},
           raw \in {api_call(files, cachedir, CallGame.endpoint, CallGame.params, net)} :
           /\ files' = r.files
           /\ first_ret' = NoteFirst(CallGame, raw)
           /\ last' = [LastNone EXCEPT
                          !.op = "find_game", !.call = CallGame,
                          !.pre = FileAt(files, PathOf(cachedir, CallGame)),
                          !.had_first = first_ret[CallGame] # NoVal,
                          !.netout = IF r.net THEN net ELSE NoNet,
                          !.inner = info.result,
                          !.result = r.result, !.net = r.net]
           /\ UNCHANGED <<cachedir, _systems, loaded, arg, ret>>
           /\ UNCHANGED walk_vars
           /\ UNCHANGED rom_vars

NextApi ==
    \/ ApiCallStep
    \/ FindGameStep

SpecApi == InitApi /\ [][NextApi]_vars

-----------------------------------------------------------------------------
(* The catalog as a state machine: a caller reads the systems property and *)
(* looks directories up, against any systems list                          *)

roms == <<"r", "o", "m", "s">>

\* directories and a file a caller looks up
LookupPaths ==
    {[path |-> <<roms, <<"n", "6", "4">> >>, is_file |-> FALSE],
     [path |-> <<roms, <<"S", "n", "e", "s">> >>, is_file |-> FALSE],
     [path |-> <<roms, <<"n", "-", "6", "4">> >>, is_file |-> FALSE],
     [path |-> <<roms, ToLower(Nintendo64), <<"a", ".", "z", "6", "4">> >>,
      is_file |-> TRUE]}

\* a caller reads the systems property
SystemsStep ==
    \E net \in CatalogNets :
        \E r \in {systems(files, cachedir, _systems, net)} :
           /\ files' = r.files
           /\ _systems' = r.systems
           /\ loaded' = (loaded \/ r.result.ok)
           /\ last' = [LastNone EXCEPT
                          !.op = "systems", !.call = CallSystems,
                          !.pre = FileAt(files, PathOf(cachedir, CallSystems)),
                          !.netout = IF r.net THEN net ELSE NoNet,
                          !.result = r.result, !.net = r.net,
                          !.listed = r.listed, !.pre_loaded = loaded,
                          !.pre_systems = _systems]
           /\ UNCHANGED <<cachedir, first_ret, arg, ret>>
           /\ UNCHANGED walk_vars
           /\ UNCHANGED rom_vars

\* a caller runs find_system_by_dir(path)
FindSystemStep ==
    \E net \in CatalogNets, p \in LookupPaths :
        \E r \in {find_system_by_dir(files, cachedir, _systems, p.path, p.is_file, net)} :
           /\ files' = r.files
           /\ _systems' = r.systems
           /\ loaded' = (loaded \/ r.result.ok)
           /\ last' = [LastNone EXCEPT
                          !.op = "find_system_by_dir", !.call = CallSystems,
                          !.path = p.path,
                          !.pre = FileAt(files, PathOf(cachedir, CallSystems)),
                          !.netout = IF r.net THEN net ELSE NoNet,
                          !.result = r.result, !.net = r.net,
                          !.listed = r.listed, !.pre_loaded = loaded,
                          !.pre_systems = _systems]
           /\ UNCHANGED <<cachedir, first_ret, arg, ret>>
           /\ UNCHANGED walk_vars
           /\ UNCHANGED rom_vars

NextCatalog ==
    \/ SystemsStep
    \/ FindSystemStep

SpecCatalog == InitApi /\ [][NextCatalog]_vars

-----------------------------------------------------------------------------
(* Cached resources as a state machine: a caller reads and writes the      *)
(* resources of downloads, of several file types                           *)

\* a caller reads a cached resource
CacheReadStep ==
    \E filetype \in FileTypes :
        LET cache == Resource(cachedir, filetype)
        IN /\ last' = [LastNone EXCEPT
                          !.op = "read", !.filetype = filetype,
                          !.pre = FileAt(files, ResourcePath(cache)),
                          !.result = CachedRead(files, cache),
                          !.prev_write = (last.op = "write" /\ last.filetype = filetype)]
           /\ UNCHANGED <<cachedir, files, _systems, loaded, first_ret, arg, ret>>
           /\ UNCHANGED walk_vars
           /\ UNCHANGED rom_vars

\* a caller writes a cached resource
CacheWriteStep ==
    \E filetype \in FileTypes :
        LET cache == Resource(cachedir, filetype)
        IN /\ files' = CachedWrite(files, cache, Payload(filetype))
           /\ last' = [LastNone EXCEPT
                          !.op = "write", !.filetype = filetype,
                          !.pre = FileAt(files, ResourcePath(cache))]
           /\ UNCHANGED <<cachedir, _systems, loaded, first_ret, arg, ret>>
           /\ UNCHANGED walk_vars
           /\ UNCHANGED rom_vars

NextCache ==
    \/ CacheReadStep
    \/ CacheWriteStep

SpecCache == InitApi /\ [][NextCache]_vars

-----------------------------------------------------------------------------
(* Cache keys: a caller builds cached resources one after the other        *)

MaxParams == 2

\* the items a parameter mapping is built from
ParamItems ==
    {<<"systemeid", JInt(14)>>, <<"systemeid", JStr("14")>>,
     <<"crc", JStr("0A1B2C3D")>>, <<"romnom", JStr("a")>>}

\* the parameter mappings: items in any construction order, keys distinct
ParamDicts ==
    {d \in UNION {[1..n -> ParamItems] : n \in 0..MaxParams} :
        \A i, k \in 1..Len(d) : d[i][1] = d[k][1] => i = k}

KeyInputs ==
    [origin : {source, "Batocera"}, name : {"jeuInfos.php"},
     params : ParamDicts, filetype : {json, <<".", "P", "N", "G">>}]

\* the storage path of the resource built from an input
KeyPath(in) ==
    ResourcePath(CachedResource(in.origin, in.name, in.params, in.filetype, CACHE_DIR))

InitKey ==
    /\ cachedir = CACHE_DIR
    /\ files = EmptyFs
    /\ _systems = <<>>
    /\ loaded = FALSE
    /\ first_ret = [c \in ApiCalls |-> NoVal]
    /\ last = LastNone
    /\ \E in \in KeyInputs :
          /\ arg = <<in, in>>
          /\ ret = <<KeyPath(in), KeyPath(in)>>
    /\ WalkIdle
    /\ RomIdle

\* a caller builds one more resource; the one built before it is kept
KeyStep ==
    \E in \in KeyInputs :
        /\ arg' = <<arg[2], in>>
        /\ ret' = <<ret[2], KeyPath(in)>>
        /\ UNCHANGED <<cachedir, files, _systems, loaded, first_ret, last>>
        /\ UNCHANGED walk_vars
        /\ UNCHANGED rom_vars

NextKey == KeyStep

SpecKey == InitKey /\ [][NextKey]_vars

-----------------------------------------------------------------------------
(* Games: _game_name and the media selection applied to any game record    *)

MaxRegions == 2
MaxNames == 2
MaxMedias == 2

Pending == [j |-> "pending"]

\* ",".join(tokens)
RECURSIVE Join(_)
Join(tokens) ==
    IF Len(tokens) = 1 THEN tokens[1]
    ELSE tokens[1] \o <<Comma>> \o Join(Tail(tokens))

\* what stands between the commas of romregions
RegionTokens == {us, eu, jp, <<>>}
TokenLists == UNION {[1..n -> RegionTokens] : n \in 1..MaxRegions}

\* the localized names of a game: the text tells the entries apart
NameRegions == {eu, jp, ss, <<>>}
NameLists ==
    {[i \in 1..Len(rs) |-> [region |-> rs[i], text |-> <<rs[i], i>>]] :
        rs \in UNION {[1..n -> NameRegions] : n \in 0..MaxNames}}

MediaEntries == {Media("ss", us), Media("ss", jp), Media("box-2D", us)}
MediaLists == UNION {[1..n -> MediaEntries] : n \in 0..MaxMedias}

NameInputs ==
    {[tokens |-> ts, game |-> Game(<<"1", "4">>, Join(ts), noms, <<>>)] :
        ts \in TokenLists, noms \in NameLists}

MediaInputs ==
    {[tokens |-> ts, media_type |-> mt,
      game |-> Game(id, Join(ts), noms, medias)] :
        ts \in TokenLists, mt \in {"ss", "mixrbv2"}, id \in {<<"1", "4">>, <<"4">>},
        noms \in {<<>>, <<[region |-> eu, text |-> <<eu, 1>>]>>},
        medias \in MediaLists}

InitPure(inputs) ==
    /\ cachedir = NoRoot
    /\ files = EmptyFs
    /\ _systems = <<>>
    /\ loaded = FALSE
    /\ first_ret = [c \in ApiCalls |-> NoVal]
    /\ last = LastNone
    /\ arg \in inputs
    /\ ret = Pending
    /\ WalkIdle
    /\ RomIdle

\* _game_name(game) is called
GameNameStep ==
    /\ ret = Pending
    /\ ret' = _game_name(arg.game)
    /\ UNCHANGED <<cachedir, files, _systems, loaded, first_ret, last, arg>>
    /\ UNCHANGED walk_vars
    /\ UNCHANGED rom_vars

NextName == GameNameStep

SpecName == InitPure(NameInputs) /\ [][NextName]_vars

\* download_rom_media goes on with the game find_game returned for a rom
\* of the N64 system
SelectMediaStep ==
    /\ ret = Pending
    /\ ret' = SelectMedia(N64System, arg.game, arg.media_type)
    /\ UNCHANGED <<cachedir, files, _systems, loaded, first_ret, last, arg>>
    /\ UNCHANGED walk_vars
    /\ UNCHANGED rom_vars

NextMedia == SelectMediaStep

SpecMedia == InitPure(MediaInputs) /\ [][NextMedia]_vars

-----------------------------------------------------------------------------
(* The directory walk: iter_files and download_media over a small disk *)

\* the characters of the file names, in ascending code point order
Alphabet == <<".">> \o Digits \o Lower
Ord(c) == CHOOSE i \in 1..Len(Alphabet) : Alphabet[i] = c

\* str.__lt__
RECURSIVE StrLess(_, _)
StrLess(a, b) ==
    IF b = <<>> THEN FALSE
    ELSE IF a = <<>> THEN TRUE
    ELSE IF Head(a) = Head(b) THEN StrLess(Tail(a), Tail(b))
    ELSE Ord(Head(a)) < Ord(Head(b))

\* sorted(filenames)
RECURSIVE sorted(_)
sorted(names) ==
    IF names = {} THEN <<>>
    ELSE LET m == CHOOSE x \in names : \A y \in names \ {x} : StrLess(x, y)
         IN <<m>> \o sorted(names \ {m})

\* str.rfind(c), counted from 1; 0 when c is not in s
RECURSIVE RFind(_, _)
RFind(s, c) ==
    IF s = <<>> THEN 0
    ELSE IF s[Len(s)] = c THEN Len(s)
    ELSE RFind(SubSeq(s, 1, Len(s) - 1), c)

\* pathlib: PurePath.suffix and PurePath.stem of a file name
Suffix(name) ==
    LET k == RFind(name, ".")
    IN IF 1 < k /\ k < Len(name) THEN SubSeq(name, k, Len(name)) ELSE <<>>
Stem(name) ==
    LET k == RFind(name, ".")
    IN IF 1 < k /\ k < Len(name) THEN SubSeq(name, 1, k - 1) ELSE name

\* pathlib: PurePath.name and PurePath.parent, on a sequence of components
BaseName(path) == path[Len(path)]
Parent(path) == SubSeq(path, 1, Len(path) - 1)

\* the disk: roms/n64/{b.z64, a.z64, c.txt} and roms/misc/{e.z64}
n64dir == <<roms, ToLower(N64)>>
miscdir == <<roms, <<"m", "i", "s", "c">> >>
a_z64 == <<"a", ".", "z", "6", "4">>
b_z64 == <<"b", ".", "z", "6", "4">>
c_txt == <<"c", ".", "t", "x", "t">>
e_z64 == <<"e", ".", "z", "6", "4">>

FileNames(dir) ==
    IF dir = n64dir THEN {b_z64, a_z64, c_txt}
    ELSE IF dir = miscdir THEN {e_z64}
    ELSE {}
SubDirs(dir) == IF dir = <<roms>> THEN {BaseName(n64dir), BaseName(miscdir)} ELSE {}

\* Path.is_dir() and Path.is_file()
IsDir(path) == path \in {<<roms>>, n64dir, miscdir}
IsFile(path) == Len(path) > 1 /\ BaseName(path) \in FileNames(Parent(path))

\* the orders in which the OS may list the subdirectories of roms
ScanOrders ==
    {o \in [1..2 -> SubDirs(<<roms>>)] : o[1] # o[2]}

RECURSIVE Flatten(_)
Flatten(seqs) == IF seqs = <<>> THEN <<>> ELSE Head(seqs) \o Flatten(Tail(seqs))

\* Path.walk() top-down under iter_files: the directory when it holds files,
\* its files sorted, then its subdirectories in the order the OS lists them
RECURSIVE WalkDir(_, _, _)
WalkDir(dir, yield_dirs, scan) ==
    LET filenames == sorted(FileNames(dir))
        dirnames == SelectSeq(scan, LAMBDA d : d \in SubDirs(dir))
    IN (IF yield_dirs /\ filenames # <<>> THEN <<dir>> ELSE <<>>)
       \o [i \in 1..Len(filenames) |-> Append(dir, filenames[i])]
       \o Flatten([i \in 1..Len(dirnames) |->
                      WalkDir(Append(dir, dirnames[i]), yield_dirs, scan)])

\* iter_files(paths, yield_dirs), all it yields
RECURSIVE iter_files(_, _, _)
iter_files(paths, yield_dirs, scan) ==
    IF paths = <<>> THEN <<>>
    ELSE LET path == Head(paths)
             rest == iter_files(Tail(paths), yield_dirs, scan)
         IN IF IsFile(path)
            THEN (IF yield_dirs THEN <<Parent(path)>> ELSE <<>>) \o <<path>> \o rest
            ELSE IF IsDir(path)
            THEN WalkDir(path, yield_dirs, scan) \o rest
            ELSE rest

\* Rom(path): path.stem, path.stat().st_size and the CRC32 of the content
Rom(path) ==
    LET name == BaseName(path)
    IN IF name = a_z64 THEN RomA
       ELSE IF name = b_z64 THEN [name |-> Stem(name), size |-> 16, crc32 |-> "4E5F6A7B"]
       ELSE [name |-> Stem(name), size |-> 4, crc32 |-> "00C0FFEE"]

\* an extension test that takes every file for a rom
IsRom_any(system, path) == TRUE

\* `path.suffix not in system.suffixes`, negated
IsRom(system, path) == Suffix(BaseName(path)) \in system.suffixes

\* a pass over a directory that keeps the system of the directory before it
\* when the lookup finds none
DirPass_sticky(skip, found) ==
    LET base == [skip EXCEPT !.files = found.files, !.systems = found.systems,
                             !.called = "find_system_by_dir",
                             !.callee = found.result]
    IN IF found.result.ok
       THEN [base EXCEPT !.system = IF found.result.val = None THEN skip.system
                                    ELSE found.result.val,
                         !.logged = (found.result.val = None)]
       ELSE [base EXCEPT !.leaves = found.result.exc]

\* the pass over a directory, after find_system_by_dir gave `found`: the new
\* system, an error logged when there is none; an exception is not caught
DirPass(skip, found) ==
    LET base == [skip EXCEPT !.files = found.files, !.systems = found.systems,
                             !.called = "find_system_by_dir",
                             !.callee = found.result]
    IN IF found.result.ok
       THEN [base EXCEPT !.system = found.result.val,
                         !.logged = (found.result.val = None)]
       ELSE [base EXCEPT !.leaves = found.result.exc]

\* a pass over a rom that counts a success for every call that returned,
\* whatever it returned
RomPass_eager(skip, got) ==
    LET base == [skip EXCEPT !.num_rom = skip.num_rom + 1,
                             !.files = got.files,
                             !.called = "download_rom_media",
                             !.callee = got.result]
    IN IF got.result.ok
       THEN [base EXCEPT !.num_media = skip.num_media + 1]
       ELSE IF IsScraperError(got.result.exc)
       THEN [base EXCEPT !.logged = TRUE]
       ELSE [base EXCEPT !.leaves = got.result.exc]

\* the pass over a rom, after download_rom_media gave `got`: num_rom counts
\* it before the call, num_media when the call returned true; a ScraperError
\* is logged, any other exception is not caught
RomPass(skip, got) ==
    LET base == [skip EXCEPT !.num_rom = skip.num_rom + 1,
                             !.files = got.files,
                             !.called = "download_rom_media",
                             !.callee = got.result]
    IN IF got.result.ok
       THEN [base EXCEPT !.num_media = skip.num_media + (IF got.result.val THEN 1 ELSE 0)]
       ELSE IF IsScraperError(got.result.exc)
       THEN [base EXCEPT !.logged = TRUE]
       ELSE [base EXCEPT !.leaves = got.result.exc]

\* one pass of the loop of download_media, over the item `path`: the locals
\* after it, what the callee returned or raised, whether an error was logged,
\* and the exception that leaves download_media, if one does
download_media_pass(fs, root, sys, system, n_rom, n_media, path, media_type, net) ==
    LET skip == [system |-> system, num_rom |-> n_rom, num_media |-> n_media,
                 files |-> fs, systems |-> sys, called |-> "none",
                 callee |-> Ok(None), logged |-> FALSE, leaves |-> NoExc]
    IN IF IsDir(path)
       THEN DirPass(skip, find_system_by_dir(fs, root, sys, path, IsFile(path), net))
       ELSE IF system = None THEN skip
       ELSE IF ~IsRom(system, path) THEN skip
       ELSE RomPass(skip, download_rom_media(fs, root, system, Rom(path), media_type, net))

\* games the remote source may answer with
GameNoMedia == Game(<<"1", "4">>, us, <<[region |-> us, text |-> "Game A"]>>, <<>>)
GameOfSnes == Game(<<"4">>, us, <<[region |-> us, text |-> "Game A"]>>,
                   <<Media("ss", us)>>)
GameNoName == Game(<<"1", "4">>, jp, <<[region |-> us, text |-> "Game A"]>>,
                   <<Media("ss", us)>>)

\* the outcomes the network has for the game of a rom
GameNets ==
    {NetRaise("ReadTimeout"), NetRaise("ConnectTimeout")}
    \cup {NetResponse(200, JsonText(EnvGame(g))) :
             g \in {GameA, GameNoMedia, GameOfSnes, GameNoName}}
    \cup {NetResponse(200, EmptyBody), NetResponse(403, DevBody),
          NetResponse(404, NotFoundBody), NetResponse(500, EmptyBody)}

\* the outcomes the network has for the systems list during a walk
WalkCatalogNets ==
    {NetRaise("ReadTimeout"),
     NetResponse(200, JsonText(EnvSystems(<<>>))),
     NetResponse(200, JsonText(EnvSystems(<<N64Data, SnesData>>)))}

MaxPaths == 2

\* what the command line may name: a tree, a directory, a file, nothing
InputPaths == {<<roms>>, n64dir, Append(n64dir, a_z64), <<roms, a_z64>>}
PathLists == UNION {[1..n -> InputPaths] : n \in 1..MaxPaths}

\* the cache entry of the game of a rom under the N64 system
GamePath(root, rom) ==
    ResourcePath(get_cached_resource(root, "jeuInfos.php",
        GameParams(N64System.id, rom.name, rom.size, rom.crc32), json))

\* what only the class of an outcome tells
Brief(result) ==
    IF result.ok THEN result ELSE Raise(Foreign(result.exc.cls))

\* download_media(paths) starts: counters at zero, no system, nothing yielded
InitWalk ==
    /\ cachedir \in {NoRoot, CACHE_DIR}
    /\ files \in {EmptyFs}
                 \cup (IF cachedir = NoRoot THEN {}
                       ELSE {[p \in {GamePath(cachedir, RomA)} |-> CorruptText]})
    /\ _systems = <<>>
    /\ loaded = FALSE
    /\ first_ret = [c \in ApiCalls |-> NoVal]
    /\ last = LastNone
    /\ arg \in PathLists
    /\ ret = Pending
    /\ order \in ScanOrders
    /\ todo = iter_files(arg, TRUE, order)
    /\ cur_system = None
    /\ num_rom = 0
    /\ num_media = 0
    /\ pc = "walk"
    /\ hist = NoHist
    /\ escaped = NoExc
    /\ exit_code = 0
    /\ RomIdle

\* the history after a pass over a file: what the disk and the catalog say
\* of the file, whatever the locals of download_media were
NoteFile(path, r) ==
    LET own == FirstSystem(_systems, BaseName(Parent(path)))
        in_system == own # None /\ Suffix(BaseName(path)) \in own.suffixes
        called == r.called = "download_rom_media"
    IN [visited |-> hist.visited + 1,
        in_system |-> hist.in_system + (IF in_system THEN 1 ELSE 0),
        returned_true |-> hist.returned_true
            + (IF in_system /\ called /\ r.callee = Ok(TRUE) THEN 1 ELSE 0),
        errors |-> hist.errors + (IF called /\ ~r.callee.ok THEN 1 ELSE 0),
        seen |-> Append(hist.seen, path),
        counted |-> IF r.num_rom # num_rom THEN Append(hist.counted, path)
                    ELSE hist.counted]

\* the loop takes a directory from iter_files
DirStep ==
    /\ pc = "walk"
    /\ todo # <<>>
    /\ IsDir(Head(todo))
    /\ \E net \in WalkCatalogNets :
          \E r \in {download_media_pass(files, cachedir, _systems, cur_system,
                        num_rom, num_media, Head(todo), "ss", net)} :
             /\ files' = r.files
             /\ _systems' = r.systems
             /\ loaded' = (loaded \/ r.callee.ok)
             /\ cur_system' = r.system
             /\ num_rom' = r.num_rom
             /\ num_media' = r.num_media
             /\ todo' = Tail(todo)
             /\ pc' = IF r.leaves = NoExc THEN "walk" ELSE "raised"
             /\ escaped' = Foreign(r.leaves.cls)
             /\ last' = [LastNone EXCEPT !.op = "dir", !.path = Head(todo),
                                         !.logged = r.logged,
                                         !.result = Brief(r.callee)]
             /\ UNCHANGED <<cachedir, first_ret, arg, ret, order, hist, exit_code>>
             /\ UNCHANGED rom_vars

\* the loop takes a file from iter_files
FileStep ==
    /\ pc = "walk"
    /\ todo # <<>>
    /\ ~IsDir(Head(todo))
    /\ \E net \in GameNets :
          \E r \in {download_media_pass(files, cachedir, _systems, cur_system,
                        num_rom, num_media, Head(todo), "ss", net)} :
             /\ files' = r.files
             /\ cur_system' = r.system
             /\ num_rom' = r.num_rom
             /\ num_media' = r.num_media
             /\ hist' = NoteFile(Head(todo), r)
             /\ todo' = Tail(todo)
             /\ pc' = IF r.leaves = NoExc THEN "walk" ELSE "raised"
             /\ escaped' = Foreign(r.leaves.cls)
             /\ last' = [LastNone EXCEPT
                            !.op = IF r.called = "none" THEN "skip" ELSE "rom",
                            !.path = Head(todo),
                            !.logged = r.logged,
                            !.result = Brief(r.callee)]
             /\ UNCHANGED <<cachedir, _systems, loaded, first_ret, arg, ret, order,
                            exit_code>>
             /\ UNCHANGED rom_vars

\* iter_files is exhausted: the counts are logged and download_media returns
ReturnStep ==
    /\ pc = "walk"
    /\ todo = <<>>
    /\ pc' = "done"
    /\ ret' = <<num_media, num_rom>>
    /\ UNCHANGED <<cachedir, files, _systems, loaded, first_ret, last, arg,
                   order, todo, cur_system, num_rom, num_media, hist, escaped,
                   exit_code>>
    /\ UNCHANGED rom_vars

NextWalk ==
    \/ DirStep
    \/ FileStep
    \/ ReturnStep

SpecWalk == InitWalk /\ [][NextWalk]_vars

-----------------------------------------------------------------------------
(* The command line: run() around cli() around download_media *)

\* SystemExit(code), as argparse raises it
SystemExit(code) == [cls |-> "SystemExit", code |-> code]

\* isinstance(e, Exception): what `except Exception` catches
IsException(e) == e.cls \notin {"none", "KeyboardInterrupt", "SystemExit"}

\* what cli() does before download_media: parse_args exits on a usage error
\* (2) or on --help (0), read_config raises on a missing file
CliOutcomes ==
    [ok |-> NoExc, usage |-> SystemExit(2), help |-> SystemExit(0),
     config |-> Foreign("FileNotFoundError")]

\* the paths of the command line: none, a directory, a file and a tree
RunPaths == {<<>>, <<n64dir>>, <<Append(n64dir, a_z64), <<roms>> >>}

\* run() with the except clauses in the other order: Exception first
run_swapped(e) ==
    IF e = NoExc THEN 0
    ELSE IF IsException(e) THEN 3
    ELSE IF IsScraperError(e) THEN 1
    ELSE IF e.cls = "KeyboardInterrupt" THEN 2
    ELSE e.code

\* run(): the exit status for what left cli(); a SystemExit goes through
run(e) ==
    IF e = NoExc THEN 0
    ELSE IF IsScraperError(e) THEN 1
    ELSE IF IsException(e) THEN 3
    ELSE IF e.cls = "KeyboardInterrupt" THEN 2
    ELSE e.code

\* run(argv) starts; the cache directory of cli is never None
InitRun ==
    /\ cachedir = CACHE_DIR
    /\ files \in {EmptyFs, [p \in {GamePath(cachedir, RomA)} |-> CorruptText]}
    /\ _systems = <<>>
    /\ loaded = FALSE
    /\ first_ret = [c \in ApiCalls |-> NoVal]
    /\ last = LastNone
    /\ arg \in RunPaths
    /\ ret = Pending
    /\ order \in ScanOrders
    /\ todo = <<>>
    /\ cur_system = None
    /\ num_rom = 0
    /\ num_media = 0
    /\ pc = "start"
    /\ hist = NoHist
    /\ escaped = NoExc
    /\ exit_code = 0
    /\ RomIdle

\* cli() up to download_media(args.paths), which it skips without paths
CliStep ==
    /\ pc = "start"
    /\ \E o \in DOMAIN CliOutcomes :
          /\ escaped' = CliOutcomes[o]
          /\ pc' = IF o # "ok" THEN "raised"
                   ELSE IF arg = <<>> THEN "done" ELSE "walk"
          /\ todo' = IF o = "ok" THEN iter_files(arg, TRUE, order) ELSE <<>>
    /\ UNCHANGED <<cachedir, files, _systems, loaded, first_ret, last, arg, ret,
                   order, cur_system, num_rom, num_media, hist, exit_code>>
    /\ UNCHANGED rom_vars

\* the user's interrupt arrives between two statements of cli or of the loop
InterruptStep ==
    /\ pc \in {"start", "walk"}
    /\ pc' = "raised"
    /\ escaped' = Foreign("KeyboardInterrupt")
    /\ last' = [LastNone EXCEPT
                   !.op = IF pc = "start" THEN "interrupt_cli" ELSE "interrupt_walk"]
    /\ UNCHANGED <<cachedir, files, _systems, loaded, first_ret, arg, ret,
                   order, todo, cur_system, num_rom, num_media, hist, exit_code>>
    /\ UNCHANGED rom_vars

\* the user's interrupt arrives while download_rom_media runs for a rom,
\* which num_rom counts already
InterruptRomStep ==
    /\ pc = "walk"
    /\ todo # <<>>
    /\ ~IsDir(Head(todo))
    /\ cur_system # None
    /\ IsRom(cur_system, Head(todo))
    /\ num_rom' = num_rom + 1
    /\ pc' = "raised"
    /\ escaped' = Foreign("KeyboardInterrupt")
    /\ last' = [LastNone EXCEPT !.op = "interrupt_walk", !.path = Head(todo)]
    /\ todo' = Tail(todo)
    /\ UNCHANGED <<cachedir, files, _systems, loaded, first_ret, arg, ret,
                   order, cur_system, num_media, hist, exit_code>>
    /\ UNCHANGED rom_vars

\* run() ends the process: sys.exit(n) in a handler, or the end of the script
ExitStep ==
    /\ pc \in {"done", "raised"}
    /\ pc' = "exited"
    /\ exit_code' = run(escaped)
    /\ UNCHANGED <<cachedir, files, _systems, loaded, first_ret, last, arg, ret,
                   order, todo, cur_system, num_rom, num_media, hist, escaped>>
    /\ UNCHANGED rom_vars

NextRun ==
    \/ CliStep
    \/ DirStep
    \/ FileStep
    \/ ReturnStep
    \/ InterruptStep
    \/ InterruptRomStep
    \/ ExitStep

SpecRun == InitRun /\ [][NextRun]_vars

-----------------------------------------------------------------------------
(* Rom.crc32: the checksum of the file, computed once *)

\* 32-bit words as sequences of bits, the least significant first
Zero32 == [i \in 1..32 |-> 0]
Ones32 == [i \in 1..32 |-> 1]
Xor(a, b) == [i \in 1..32 |-> (a[i] + b[i]) % 2]
ShiftRight(a) == [i \in 1..32 |-> IF i < 32 THEN a[i + 1] ELSE 0]

RECURSIVE Pow2(_)
Pow2(n) == IF n = 0 THEN 1 ELSE 2 * Pow2(n - 1)

\* a byte as a word
ByteWord(b) == [i \in 1..32 |-> IF i <= 8 THEN (b \div Pow2(i - 1)) % 2 ELSE 0]

\* the digits of %X and the word that eight of them write
HexDigits == <<"0", "1", "2", "3", "4", "5", "6", "7",
               "8", "9", "A", "B", "C", "D", "E", "F">>
HexVal(c) == (CHOOSE i \in 1..16 : HexDigits[i] = c) - 1
HexWord(s) ==
    [i \in 1..32 |-> (HexVal(s[8 - ((i - 1) \div 4)]) \div Pow2((i - 1) % 4)) % 2]

\* the polynomial of CRC-32, reflected
CrcPoly == HexWord(<<"E", "D", "B", "8", "8", "3", "2", "0">>)

\* one bit of the division: shift, and subtract the polynomial on a carry
CrcBit(c) == IF c[1] = 1 THEN Xor(ShiftRight(c), CrcPoly) ELSE ShiftRight(c)
CrcByte(c, b) ==
    CrcBit(CrcBit(CrcBit(CrcBit(CrcBit(CrcBit(CrcBit(CrcBit(Xor(c, ByteWord(b))))))))))

RECURSIVE CrcBytes(_, _)
CrcBytes(c, chunk) ==
    IF chunk = <<>> THEN c ELSE CrcBytes(CrcByte(c, Head(chunk)), Tail(chunk))

\* zlib.crc32(chunk, crc): the running checksum after chunk
zlib_crc32(chunk, crc) == Xor(CrcBytes(Xor(crc, Ones32), chunk), Ones32)

\* f"{crc & 0xFFFFFFFF:08X}"
Format08X(crc) ==
    [k \in 1..8 |->
        HexDigits[1 + crc[29 - 4 * (k - 1)] + 2 * crc[30 - 4 * (k - 1)]
                    + 4 * crc[31 - 4 * (k - 1)] + 8 * crc[32 - 4 * (k - 1)]]]

CHUNK_SIZE == 65536

\* the loop `while chunk := fd.read(self.CHUNK_SIZE)`
RECURSIVE ReadChunks(_, _)
ReadChunks(content, crc) ==
    IF content = <<>> THEN crc
    ELSE IF Len(content) <= CHUNK_SIZE THEN zlib_crc32(content, crc)
    ELSE ReadChunks(SubSeq(content, CHUNK_SIZE + 1, Len(content)),
                    zlib_crc32(SubSeq(content, 1, CHUNK_SIZE), crc))

\* a crc32 whose memo is the number: a checksum of 0 is taken for no memo
crc32_of_number(memo, content) ==
    IF memo = <<>> \/ memo = Format08X(Zero32)
    THEN [value |-> Format08X(ReadChunks(content, Zero32)),
          memo |-> Format08X(ReadChunks(content, Zero32)), scanned |-> TRUE]
    ELSE [value |-> memo, memo |-> memo, scanned |-> FALSE]

\* Rom.crc32 with self._crc32 = memo, on a file that holds content: the value
\* returned, the memo after the read and whether the file was read through
crc32(memo, content) ==
    IF memo = <<>>
    THEN [value |-> Format08X(ReadChunks(content, Zero32)),
          memo |-> Format08X(ReadChunks(content, Zero32)), scanned |-> TRUE]
    ELSE [value |-> memo, memo |-> memo, scanned |-> FALSE]

MaxBytes == 2
MaxReads == 3

\* the contents of the file: short ones, and the four bytes whose CRC-32 is 0
Bytes == {0, 97, 255}
Contents ==
    UNION {[1..n -> Bytes] : n \in 0..MaxBytes} \cup {<<157, 10, 217, 109>>}

\* a Rom is made for a file; arg is the content of the file, ret the values
\* the reads of crc32 returned
InitRom ==
    /\ cachedir = NoRoot
    /\ files = EmptyFs
    /\ _systems = <<>>
    /\ loaded = FALSE
    /\ first_ret = [c \in ApiCalls |-> NoVal]
    /\ last = LastNone
    /\ arg \in Contents
    /\ ret = <<>>
    /\ WalkIdle
    /\ RomIdle

\* a caller reads rom.crc32
Crc32Step ==
    /\ Len(ret) < MaxReads
    /\ \E r \in {crc32(_crc32, arg)} :
          /\ ret' = Append(ret, r.value)
          /\ _crc32' = r.memo
          /\ scans' = scans + (IF r.scanned THEN 1 ELSE 0)
    /\ UNCHANGED <<cachedir, files, _systems, loaded, first_ret, last, arg>>
    /\ UNCHANGED walk_vars

\* another program rewrites the file between two reads
RewriteStep ==
    /\ \E c \in Contents \ {arg} : arg' = c
    /\ UNCHANGED <<cachedir, files, _systems, loaded, first_ret, last, ret>>
    /\ UNCHANGED walk_vars
    /\ UNCHANGED rom_vars

NextRom ==
    \/ Crc32Step
    \/ RewriteStep

SpecRom == InitRom /\ [][NextRom]_vars

-----------------------------------------------------------------------------
(* Properties of the API client *)

\* the entry the last call found under its key decodes to an envelope
PreIsEnvelope == last.pre.fmt = "json" /\ IsEnvelope(last.pre.val)

\* the entry the last call found under its key is one that read() returns:
\* a file that exists and does not hold JSON null
PreIsData == last.pre # Absent /\ ~(last.pre.fmt = "json" /\ last.pre.val = None)

C2_RoundTrip ==
    cachedir # NoRoot =>
        /\ (last.op = "api_call" /\ last.net /\ last.result.ok)
              => json_loads(FileAt(files, PathOf(cachedir, last.call)))
                     = json_loads(last.netout.text)
        /\ (last.op = "api_call" /\ last.had_first)
              => (last.result = Ok(first_ret[last.call]) /\ ~last.net)

C2_Witness ==
    /\ cachedir # NoRoot
    /\ last.op = "api_call"
    /\ last.call = CallGame
    /\ last.had_first
    /\ last.result = Ok(first_ret[CallGame])
    /\ first_ret[CallSystems] # NoVal

\* the error of api_game_info that find_game remaps: a response error of
\* status 404 whose body holds the not-found marker
IsNotFound(outcome) ==
    /\ ~outcome.ok
    /\ outcome.exc.cls = "ScraperResponseError"
    /\ outcome.exc.errno = 404
    /\ Contains(outcome.exc.res.text, NotFoundMarker)

\* C6: find_game re-raises a 404 response error whose body holds the marker
\* as a ScraperError that names the rom and the system; any other outcome of
\* the lookup (a 404 without the marker, another status, another kind of
\* error, a value) is passed on unchanged.
C6_NotFoundRemap ==
    last.op = "find_game" =>
        IF IsNotFound(last.inner)
        THEN /\ ~last.result.ok
             /\ last.result.exc.cls = "ScraperError"
             /\ last.result.exc.msg.rom = RomA.name
             /\ last.result.exc.msg.system = N64System.id
        ELSE last.result = last.inner

C6_Witness ==
    /\ last.op = "find_game"
    /\ IsNotFound(last.inner)
    /\ last.result.exc.cls = "ScraperError"

\* C8: with a cache root, reading a resource whose file was never written
\* returns the miss and raises nothing; without a cache root every read
\* returns the miss and no write touches the filesystem.
C8_MissTransparency ==
    /\ (cachedir # NoRoot /\ last.op = "read" /\ last.pre = Absent)
          => last.result = Ok(None)
    /\ cachedir = NoRoot
          => (files = EmptyFs /\ (last.op = "read" => last.result = Ok(None)))

C8_Witness ==
    /\ cachedir = NoRoot
    /\ last.op = "read"
    /\ last.prev_write
    /\ last.result = Ok(None)

\* C9 (as claimed): once an access to the catalog has completed without
\* error, every later access returns the mapping already built and does not
\* call api_systems_list again.
C9_LoadIdempotent ==
    (last.op = "systems" /\ last.pre_loaded)
        => (~last.listed /\ last.result = Ok(last.pre_systems))

\* two inputs that name the same entry: same origin, operation and file
\* type, and parameter mappings that hold the same key/value pairs
SameEntry(a, b) ==
    /\ a.origin = b.origin
    /\ a.name = b.name
    /\ a.filetype = b.filetype
    /\ Range(a.params) = Range(b.params)

\* C7: two resources built, one after the other, from the same origin,
\* operation and file type and from parameter mappings that hold the same
\* key/value pairs in any key order have the same storage path.
C7_KeyDeterminism == SameEntry(arg[1], arg[2]) => ret[1] = ret[2]

C7_Witness ==
    /\ SameEntry(arg[1], arg[2])
    /\ arg[1].params # arg[2].params
    /\ Len(arg[1].params) = 2
    /\ ret[1] = ret[2]

-----------------------------------------------------------------------------
(* Properties of the game functions *)

\* the regions the rom reports, in order: the non-empty tokens
Reported == SelectSeq(arg.tokens, LAMBDA r : r # <<>>)

\* the reported regions followed by the fixed fallback sequence
Sought == Reported \o <<wor, ss, eu>>

HasName(region) == \E i \in 1..Len(arg.game.noms) : arg.game.noms[i].region = region

\* the text of the first name entry of the region
NameOf(region) ==
    arg.game.noms[CHOOSE i \in 1..Len(arg.game.noms) :
                      /\ arg.game.noms[i].region = region
                      /\ \A k \in 1..(i - 1) : arg.game.noms[k].region # region].text

\* d is s without its repetitions, first occurrences kept in order
IsDedupOf(d, s) ==
    /\ Range(d) = Range(s)
    /\ \A i, k \in 1..Len(d) : d[i] = d[k] => i = k
    /\ \A i, k \in 1..Len(d) :
          i < k => \E m \in 1..Len(s) :
                      s[m] = d[i] /\ \A n \in 1..m : s[n] # d[k]

\* C10: _game_name tries the reported regions in order, then wor, ss, eu,
\* each region once; it returns the name of the first of them that has a
\* name entry, and raises ScraperError when none has.
C10_RegionResolution ==
    ret # Pending =>
        LET named == {k \in 1..Len(Sought) : HasName(Sought[k])}
            first == CHOOSE k \in named : \A m \in named : k <= m
        IN IF named = {}
           THEN /\ ~ret.result.ok
                /\ ret.result.exc.cls = "ScraperError"
                /\ ret.result.exc.msg.romregions = arg.game.rom.romregions
                /\ IsDedupOf(ret.warned, Sought)
           ELSE /\ ret.result = Ok(NameOf(Sought[first]))
                /\ IsDedupOf(ret.warned, SubSeq(Sought, 1, first - 1))

\* rom regions "us,eu" and a name for eu alone resolve to the eu name
C10_Witness ==
    /\ ret # Pending
    /\ arg.tokens = <<us, eu>>
    /\ arg.game.noms = <<[region |-> eu, text |-> <<eu, 1>>]>>
    /\ ret.result = Ok(<<eu, 1>>)
    /\ ret.warned = <<us>>

\* a media entry of the wanted type whose region the rom reports
Matches(media) ==
    /\ media.type = arg.media_type
    /\ media.region \in Range(Split(arg.game.rom.romregions, Comma))

\* C5 (as claimed): for a game with a non-empty media list, download_rom_media
\* returns true only if some entry matches the media type and a rom region,
\* the download step being invoked for that entry, and returns false if no
\* entry matches.
C5_MediaSelection ==
    (ret # Pending /\ ret.result.ok /\ arg.game.medias # <<>>) =>
        /\ ret.result.val = (\E i \in 1..Len(arg.game.medias) : Matches(arg.game.medias[i]))
        /\ ret.result.val => (ret.download # None /\ Matches(ret.download))

\* C3 (as claimed): whenever download_rom_media raises for a file, whatever
\* the error, download_media logs it and goes on to the next item without
\* raising, the file staying counted as attempted and not as a success.
C3_NoFileAborts ==
    (last.op = "rom" /\ ~last.result.ok) =>
        /\ pc # "raised"
        /\ last.logged
        /\ num_rom - num_media >= hist.errors

\* C4: when the walk ends, the attempted count is the number of files visited
\* whose own directory names a system of the catalog that recognizes their
\* extension, and the success count is the number of those for which
\* download_rom_media returned true; these are the counts reported.
C4_FinalCounters ==
    pc = "done" =>
        /\ num_rom = hist.in_system
        /\ num_media = hist.returned_true
        /\ ret = <<hist.returned_true, hist.in_system>>

\* the walk of roms/n64 ends with a.z64 found, b.z64 failed with an error
\* that was logged and c.txt skipped: 1 / 2
C4_Witness ==
    /\ pc = "done"
    /\ arg = <<n64dir>>
    /\ cachedir = CACHE_DIR
    /\ FileAt(files, GamePath(cachedir, RomA)) \notin {Absent, CorruptText}
    /\ FileAt(files, GamePath(cachedir, Rom(Append(n64dir, b_z64)))) = Absent
    /\ hist.visited = 3
    /\ hist.errors = 1
    /\ ret = <<1, 2>>

\* C11 (as claimed): whenever the game has the expected system id and an empty
\* media list, download_rom_media returns false and raises nothing, whatever
\* regions the names of the game cover.
C11_NoMediaNotError ==
    (/\ ret # Pending
     /\ arg.game.medias = <<>>
     /\ IsNumeric(arg.game.systeme.id)
     /\ N64System.id = IntOf(arg.game.systeme.id))
        => ret.result = Ok(FALSE)

\* C12 (as claimed): whenever the connect timeout or the read timeout of the
\* request of an api_call expires, api_call raises an error of the
\* ScraperError family that has no HTTP status and wraps the timeout.
C12_TimeoutClassified ==
    (last.op = "api_call" /\ last.netout.exc \in {"ReadTimeout", "ConnectTimeout"})
        => /\ ~last.result.ok
           /\ IsScraperError(last.result.exc)
           /\ last.result.exc.errno = 0
           /\ last.result.exc.err = last.netout.exc

\* the request of the last api_call completed with a status in lo..hi and a
\* body that is not valid JSON
MalformedIn(lo, hi) ==
    /\ last.op = "api_call"
    /\ last.net
    /\ last.netout.exc = "none"
    /\ lo <= last.netout.status_code /\ last.netout.status_code <= hi
    /\ ~json_loads(last.netout.text).ok

\* api_call raised the plain ScraperError of a malformed body, with the URL
\* and the raw body
IsProtocolError ==
    /\ ~last.result.ok
    /\ last.result.exc.cls = "ScraperError"
    /\ last.result.exc.err = "JSONDecodeError"
    /\ last.result.exc.msg.url = <<API_URL, last.call.endpoint>>
    /\ last.result.exc.msg.text = last.netout.text

\* C13 (as claimed): a 2xx or a 4xx status with a body that is not valid JSON
\* makes api_call raise the malformed-body error with the URL and the body.
C13_MalformedBody_Original ==
    (MalformedIn(200, 299) \/ MalformedIn(400, 499)) => IsProtocolError

\* C13 (amended): a 2xx status with a body that is not valid JSON makes
\* api_call raise the malformed-body error with the URL and the raw body,
\* and never a ScraperResponseError or a value.
C13_MalformedBody ==
    MalformedIn(200, 299) => IsProtocolError

\* a 200 with an empty body was classified
C13_Witness ==
    /\ MalformedIn(200, 299)
    /\ last.netout.text = EmptyBody
    /\ IsProtocolError

\* C14 (as claimed): whenever the request of an api_call completes with a
\* status outside 200..299, api_call raises a ScraperResponseError that has
\* the status code, the headers and the raw body of the response, with the
\* developer credentials message when the status is 403 and the body holds
\* the marker; it returns no value.
C14_StatusClassification ==
    (/\ last.op = "api_call"
     /\ last.net
     /\ last.netout.exc = "none"
     /\ ~(200 <= last.netout.status_code /\ last.netout.status_code <= 299))
        => /\ ~last.result.ok
           /\ last.result.exc.cls = "ScraperResponseError"
           /\ last.result.exc.errno = last.netout.status_code
           /\ last.result.exc.res.headers = "headers"
           /\ last.result.exc.res.text = last.netout.text
           /\ (last.result.exc.msg.fmt = "%s\t%s (Invalid developer credentials)")
                 = (last.netout.status_code = 403
                    /\ Contains(last.netout.text, DevMarker))

\* C15 (as claimed): every error that find_system_by_dir or download_rom_media
\* raises during a walk (transport, protocol, auth, remote, not found, data,
\* cache decode) is of the ScraperError family, the one download_media
\* catches per file.
C15_CommonSupertype ==
    (last.op \in {"dir", "rom"} /\ ~last.result.ok)
        => IsScraperError(last.result.exc)

\* C16: the process ends with status 0 when cli returned, 1 when an error of
\* the ScraperError family left it, 2 on the user's interrupt and 3 on any
\* other exception; the status is always one of 0..3.
C16_ExitCodes ==
    pc = "exited" =>
        /\ exit_code \in 0..3
        /\ (escaped = NoExc) => exit_code = 0
        /\ IsScraperError(escaped) => exit_code = 1
        /\ (escaped.cls = "KeyboardInterrupt") => exit_code = 2
        /\ (IsException(escaped) /\ ~IsScraperError(escaped)) => exit_code = 3

\* a failed load of the systems list left download_media and ended the run
\* with status 1
C16_Witness ==
    /\ pc = "exited"
    /\ last.op = "dir"
    /\ escaped.cls = "ScraperError"
    /\ exit_code = 1

\* C17 (as claimed): when the user's interrupt arrives during the walk, no
\* further item is processed, the counters accumulated so far are reported
\* and the process ends with the interrupt status.
C17_InterruptReports ==
    (pc = "exited" /\ last.op = "interrupt_walk")
        => /\ exit_code = 2
           /\ ret # Pending
           /\ ret = <<num_media, num_rom>>

\* eight characters, each a digit of %X
IsHex8(s) == Len(s) = 8 /\ \A i \in 1..8 : \E d \in 1..16 : HexDigits[d] = s[i]

\* C18: the reads of crc32 of one Rom all return the same value of eight
\* hexadecimal digits, and the file is read through at most once, whatever
\* the file holds.
C18_ChecksumMemo ==
    /\ scans <= 1
    /\ \A i \in 1..Len(ret) : IsHex8(ret[i]) /\ ret[i] = ret[1]

\* an empty file was read three times: 00000000 each time, one scan
C18_Witness ==
    /\ arg = <<>>
    /\ ret = <<Format08X(Zero32), Format08X(Zero32), Format08X(Zero32)>>
    /\ scans = 1

\* no element of the sequence occurs twice
NoRepeat(s) == \A i, j \in 1..Len(s) : s[i] = s[j] => i = j

\* C19 (as claimed): in one run of download_media no file is classified more
\* than once and none is counted more than once, whatever the input paths
\* are, repeated or overlapping ones included.
C19_ClassifiedOnce ==
    /\ NoRepeat(hist.seen)
    /\ NoRepeat(hist.counted)

\* the alias set of a system, from its data: every localized name split at
\* the commas, each piece stripped and lower-cased
Aliases(data) ==
    UNION {{ToLower(Strip(p)) : p \in Range(Split(data.noms[k][2], Comma))} :
              k \in 1..Len(data.noms)}

\* the name find_system_by_dir looked up last: the directory's, or the
\* parent's when the path is a file
LookedUp ==
    LET p == CHOOSE q \in LookupPaths : q.path = last.path
    IN ToLower(IF p.is_file THEN p.path[Len(p.path) - 1] ELSE p.path[Len(p.path)])

\* the places in the catalog of the systems the name is an alias of
Matching == {i \in 1..Len(_systems) : LookedUp \in Aliases(_systems[i].data)}

\* C20: find_system_by_dir returns the first system of the catalog whose
\* alias set holds the lower-cased directory name, and None when no alias
\* set holds it.
C20_DirectoryAliasing ==
    (last.op = "find_system_by_dir" /\ last.result.ok) =>
        IF Matching = {} THEN last.result.val = None
        ELSE last.result.val =
                _systems[CHOOSE i \in Matching : \A j \in Matching : i <= j]

\* roms/n64 under a catalog where 64DD, listed first, and Nintendo 64 both
\* have the common name N64: the first one is returned
C20_Witness ==
    /\ last.op = "find_system_by_dir"
    /\ last.path = <<roms, ToLower(N64)>>
    /\ Matching = {1, 2}
    /\ last.result.ok
    /\ last.result.val.id = N64DDData.id

\* the file the loop of download_media is about to classify
AtFile == pc = "walk" /\ todo # <<>> /\ ~IsDir(Head(todo))

\* find_system_by_dir over the catalog the run holds, for the directory that
\* holds `path`
OwnSystem(path) == FirstSystem(_systems, BaseName(Parent(path)))

\* C21: whenever download_media classifies a file, its system context is what
\* find_system_by_dir gives for the directory that holds the file; when that
\* is no system, the file is not attempted, neither counter moves and nothing
\* is fetched or stored for it.
C21_SystemTracksDirectory ==
    [][AtFile =>
          /\ cur_system = OwnSystem(Head(todo))
          /\ OwnSystem(Head(todo)) = None =>
                 /\ last'.op = "skip"
                 /\ num_rom' = num_rom
                 /\ num_media' = num_media
                 /\ files' = files]_vars

\* the walk of roms went through roms/n64, where a rom was attempted under
\* the N64 system, and has just skipped e.z64 of roms/misc, a directory no
\* system of the loaded catalog names
C21_Witness ==
    /\ arg = <<<<roms>> >>
    /\ _systems # <<>>
    /\ hist.counted # <<>>
    /\ last.op = "skip"
    /\ last.path = Append(miscdir, e_z64)
    /\ cur_system = None

\* C22 (as claimed): an api_call that ends in an error leaves every cache
\* entry as it was before the call, and an api_call that found an entry under
\* its key does not write over it.
C22_FailedCallsKeepCache ==
    [][last'.op = "api_call" =>
          /\ ~last'.result.ok => files' = files
          /\ last'.pre # Absent => files' = files]_vars

\* the file at the head of the walk passes the extension test of the system
\* context
PassesCheck == AtFile /\ cur_system # None /\ IsRom(cur_system, Head(todo))

\* C23: throughout download_media 0 <= num_media <= num_rom; no step lowers
\* a counter; num_rom grows, by one, exactly in the steps over a file that
\* passes the extension test; num_media grows, by one, only in a step where
\* download_rom_media returned true for the file of that step.
C23_CounterInvariant ==
    /\ [](0 <= num_media /\ num_media <= num_rom)
    /\ [][/\ num_rom' \in {num_rom, num_rom + 1}
          /\ num_media' \in {num_media, num_media + 1}
          /\ (num_rom' = num_rom + 1) <=> PassesCheck
          /\ (num_media' = num_media + 1) =>
                 /\ PassesCheck
                 /\ last'.op = "rom"
                 /\ last'.path = Head(todo)
                 /\ last'.result = Ok(TRUE)]_vars

\* in the walk of roms/n64, a.z64 was counted as a success and b.z64 has just
\* been attempted with download_rom_media returning false: 1 of 2, c.txt next
C23_Witness ==
    /\ pc = "walk"
    /\ last.op = "rom"
    /\ last.path = Append(n64dir, b_z64)
    /\ last.result = Ok(FALSE)
    /\ num_media = 1
    /\ num_rom = 2
    /\ todo = <<Append(n64dir, c_txt)>>

====
